---- MODULE Spec2Model ----
(***************************************************************************)
(* Mastermind (src/Mastermind/mastermind.jsx): the code generator, the     *)
(* scorer and the React state of MastermindApp with its event handlers.    *)
(* Every handler runs to completion and the component re-renders before    *)
(* the next event, so one action is one handler call on the rendered       *)
(* state.  Arrays are sequences; a JavaScript index i is i + 1 here.       *)
(***************************************************************************)
EXTENDS Integers, Sequences, FiniteSets, TLC

(* ---------------------------- bounds ----------------------------------- *)
\* Math.random() lands in the first NumRand palette keys / the random
\* comparator of sort permutes only the first NumRand keys.
NumRand == 2
\* The player clicks only the first NumPick palette buttons.
NumPick == 1
\* Largest number typed into the "Laenge" input (the code clamps to 2..10).
MaxLengthInput == 2
\* Largest number typed into the "Versuche" input (the code clamps to 1..20).
MaxAttemptsInput == 2
\* Guesses are accepted only while the history is shorter than this.
MaxHistory == 2
\* Scorer inputs: codes of 1..MaxCodeLen pegs over the first NumColours keys.
MaxCodeLen == 4
NumColours == 4
\* Generator inputs: the first 0..MaxGenKeys palette keys, lengths -1..MaxGenLength.
MaxGenKeys == 4
MaxGenLength == 5

(* ---------------------- program constants ------------------------------ *)
defaultPalette == <<"r", "b", "g", "y", "o", "p">>
extra == <<"c", "m">>
DefaultLength == 4
DefaultAttempts == 10
MinLength == 2
MaxLength == 10
MinAttempts == 1
MaxAttempts == 20

Null == "null"
\* An array slot that was never written (a hole of a sparse array).
Hole == "hole"
\* The value of an array read past the end.
Undefined == "undefined"

Min(a, b) == IF a < b THEN a ELSE b
Max(a, b) == IF a > b THEN a ELSE b
Range(s) == {s[i] : i \in 1..Len(s)}

\* palette .. reveal are the useState cells of MastermindApp.  lastOp is a
\* ghost: the game handler that ran last ("submitReturned" and
\* "handlePickReturned" when it took its early return, "other" for the
\* settings, slot and reveal controls).  call is the pending or returned call
\* of a pure function when one is exercised on its own.
VARIABLES palette, length, attempts, allowDup, secret, current, cursor,
          history, gameOver, reveal, lastOp, call

vars == <<palette, length, attempts, allowDup, secret, current, cursor,
          history, gameOver, reveal, lastOp, call>>

\* keys = palette.map(p => p.k): the palette is kept as its sequence of keys.
keys == palette

(* ------------------------- randomCode ---------------------------------- *)
\* Math.floor(Math.random() * n), as a JavaScript index; 0 when n is 0.
RandomIndex(n) == IF n <= 0 THEN {0} ELSE 0..(Min(n, NumRand) - 1)

\* arr[i] for a JavaScript index i.
At(arr, i) == IF i + 1 \in 1..Len(arr) THEN arr[i + 1] ELSE Undefined

\* arr.slice(0, end): a negative end counts from the end of arr.
Slice(arr, end) ==
  SubSeq(arr, 1, IF end < 0 THEN Max(Len(arr) + end, 0) ELSE Min(end, Len(arr)))

\* arr.sort(() => Math.random() - 0.5): some permutation of arr.
Shuffles(arr) ==
  LET m == Min(NumRand, Len(arr))
  IN  {[i \in 1..Len(arr) |-> IF i <= m THEN arr[p[i]] ELSE arr[i]] :
         p \in {q \in [1..m -> 1..m] : \A i, j \in 1..m : q[i] = q[j] => i = j}}

\* Mutant: one peg too few is drawn.
DrawOneShort(ks, len) ==
  {[i \in 1..(len - 1) |-> ks[idx[i] + 1]] :
     idx \in [1..(len - 1) -> RandomIndex(Len(ks))]}

\* Array.from({length}, () => keys[random index]); no element for length <= 0.
DrawWithReplacement(ks, len) ==
  {[i \in 1..len |-> At(ks, idx[i])] : idx \in [1..len -> RandomIndex(Len(ks))]}

\* Mutant: the fallback for a length beyond the palette is forgotten.
randomCodeNoFallback(ks, len, allowDuplicates) ==
  IF allowDuplicates
    THEN DrawWithReplacement(ks, len)
    ELSE {Slice(arr, len) : arr \in Shuffles(ks)}

\* The set of codes randomCode(keys, length, allowDuplicates) can return.
randomCode(ks, len, allowDuplicates) ==
  IF allowDuplicates
    THEN DrawWithReplacement(ks, len)
    ELSE IF len > Len(ks)
           THEN DrawWithReplacement(ks, len)
           ELSE {Slice(arr, len) : arr \in Shuffles(ks)}

(* ------------------------- scoreGuess ---------------------------------- *)
\* guess[i] for a JavaScript index i; undefined past the end never equals a key.
Count(s, k) == Cardinality({i \in 1..Len(s) : s[i] = k})

\* Mutant: a peg counts when the guess has its colour at any position.
BlacksAnyPosition(sec, guess) ==
  Cardinality({i \in 1..Len(sec) : sec[i] \in Range(guess)})

Blacks(sec, guess) ==
  Cardinality({i \in 1..Len(sec) : i <= Len(guess) /\ sec[i] = guess[i]})

RECURSIVE SumMin(_, _, _)
SumMin(ks, sec, guess) ==
  IF ks = {} THEN 0
  ELSE LET k == CHOOSE x \in ks : TRUE
       IN  Min(Count(sec, k), Count(guess, k)) + SumMin(ks \ {k}, sec, guess)

\* Mutant: a colour of the secret counts once when the guess has it at all.
OverlapPresence(sec, guess) ==
  Cardinality({k \in Range(sec) : Count(guess, k) > 0})

\* overlap: the loop runs over the colours of the secret only.
Overlap(sec, guess) == SumMin(Range(sec), sec, guess)

\* Mutant: the blacks are not taken out of the overlap.
scoreGuessWhitesAreOverlap(sec, guess) ==
  [blacks |-> Blacks(sec, guess), whites |-> Max(0, Overlap(sec, guess))]

scoreGuess(sec, guess) ==
  LET blacks == Blacks(sec, guess)
      overlap == Overlap(sec, guess)
  IN  [blacks |-> blacks, whites |-> Max(0, overlap - blacks)]

(* ------------------------ derived values ------------------------------- *)
Nulls(len) == [i \in 1..len |-> Null]

\* Mutant: the row is complete, the game-over test is forgotten.
canSubmitRowOnly == \A i \in 1..Len(current) : current[i] # Null

\* Mutant: some instead of every.
canSubmitSome == (\E i \in 1..Len(current) : current[i] # Null) /\ ~gameOver

\* current.every((c) => !!c) && !gameOver   (every skips holes)
canSubmit == (\A i \in 1..Len(current) : current[i] # Null) /\ ~gameOver

\* statusText / the game-over banner: which of the three texts is shown.
Status ==
  IF gameOver
    THEN IF history # <<>> /\ history[Len(history)].feedback.blacks = length
           THEN "Won" ELSE "Lost"
    ELSE "InProgress"

NoCall == [fn |-> "none"]

(* ----------------------------- Init ------------------------------------ *)
Init ==
  /\ palette = defaultPalette
  /\ length = DefaultLength
  /\ attempts = DefaultAttempts
  /\ allowDup = TRUE
  /\ secret \in randomCode(defaultPalette, DefaultLength, TRUE)
  /\ current = Nulls(DefaultLength)
  /\ cursor = 0
  /\ history = <<>>
  /\ gameOver = FALSE
  /\ reveal = FALSE
  /\ lastOp = "init"
  /\ call = NoCall

(* ---------------------------- handlers --------------------------------- *)
resetGame ==
  /\ secret' \in randomCode(keys, length, allowDup)
  /\ current' = Nulls(length)
  /\ cursor' = 0
  /\ history' = <<>>
  /\ gameOver' = FALSE
  /\ reveal' = FALSE
  /\ lastOp' = "resetGame"
  /\ UNCHANGED <<palette, length, attempts, allowDup, call>>

\* The guess row is rendered only while the game is not over.
handleSetSlot(i) ==
  /\ ~gameOver
  /\ cursor' = i
  /\ lastOp' = "other"
  /\ UNCHANGED <<palette, length, attempts, allowDup, secret, current,
                 history, gameOver, reveal, call>>

\* next = [...current]; next[i] = k
SetAt(arr, i, k) ==
  [j \in 1..Max(Len(arr), i + 1) |->
     IF j = i + 1 THEN k ELSE IF j <= Len(arr) THEN arr[j] ELSE Hole]

handlePick(k) ==
  /\ lastOp' = IF gameOver THEN "handlePickReturned" ELSE "handlePick"
  /\ IF gameOver
       THEN UNCHANGED <<current, cursor>>
       ELSE /\ current' = SetAt(current, cursor, k)
            /\ cursor' = (cursor + 1) % length
  /\ UNCHANGED <<palette, length, attempts, allowDup, secret, history,
                 gameOver, reveal, call>>

\* Mutant: the win test is forgotten.
submitOutcomeNoWin(feedback, newHistory) ==
  IF Len(newHistory) >= attempts THEN "lost" ELSE "nextRow"

\* Mutant: the budget test is off by one.
submitOutcomeOffByOne(feedback, newHistory) ==
  IF feedback.blacks = length
    THEN "won"
    ELSE IF Len(newHistory) > attempts THEN "lost" ELSE "nextRow"

\* The branch submit takes after appending the attempt.
submitOutcome(feedback, newHistory) ==
  IF feedback.blacks = length
    THEN "won"
    ELSE IF Len(newHistory) >= attempts THEN "lost" ELSE "nextRow"

submit ==
  /\ lastOp' = IF canSubmit THEN "submit" ELSE "submitReturned"
  /\ IF ~canSubmit
       THEN UNCHANGED <<history, gameOver, current, cursor>>
       ELSE LET g == current
                feedback == scoreGuess(secret, g)
                newHistory == Append(history, [guess |-> g, feedback |-> feedback])
            IN  /\ Len(history) < MaxHistory
                /\ history' = newHistory
                /\ IF submitOutcome(feedback, newHistory) \in {"won", "lost"}
                     THEN /\ gameOver' = TRUE
                          /\ UNCHANGED <<current, cursor>>
                     ELSE /\ current' = Nulls(length)
                          /\ cursor' = 0
                          /\ UNCHANGED gameOver
  /\ UNCHANGED <<palette, length, attempts, allowDup, secret, reveal, call>>

\* v = Math.min(10, Math.max(2, Number(e.target.value)))
ClampLength(n) == Min(MaxLength, Max(MinLength, n))
\* v = Math.min(20, Math.max(1, Number(e.target.value)))
ClampAttempts(n) == Min(MaxAttempts, Max(MinAttempts, n))

setLengthInput(n) ==
  /\ length' = ClampLength(n)
  /\ lastOp' = "other"
  /\ UNCHANGED <<palette, attempts, allowDup, secret, current, cursor,
                 history, gameOver, reveal, call>>

setAttemptsInput(n) ==
  /\ attempts' = ClampAttempts(n)
  /\ lastOp' = "other"
  /\ UNCHANGED <<palette, length, allowDup, secret, current, cursor,
                 history, gameOver, reveal, call>>

setAllowDupInput(checked) ==
  /\ allowDup' = checked
  /\ lastOp' = "other"
  /\ UNCHANGED <<palette, length, attempts, secret, current, cursor,
                 history, gameOver, reveal, call>>

addCyanMagenta ==
  /\ palette' = palette \o SelectSeq(extra, LAMBDA e : e \notin Range(palette))
  /\ lastOp' = "other"
  /\ UNCHANGED <<length, attempts, allowDup, secret, current, cursor,
                 history, gameOver, reveal, call>>

setDefaultPalette ==
  /\ palette' = defaultPalette
  /\ lastOp' = "other"
  /\ UNCHANGED <<length, attempts, allowDup, secret, current, cursor,
                 history, gameOver, reveal, call>>

\* Mutant: the toggle also clears the current row.
toggleRevealClearsRow ==
  /\ reveal' = ~reveal
  /\ current' = Nulls(length)
  /\ cursor' = 0
  /\ lastOp' = "other"
  /\ UNCHANGED <<palette, length, attempts, allowDup, secret, history,
                 gameOver, call>>

toggleReveal ==
  /\ reveal' = ~reveal
  /\ lastOp' = "other"
  /\ UNCHANGED <<palette, length, attempts, allowDup, secret, current, cursor,
                 history, gameOver, call>>

PickKeys == {keys[i] : i \in 1..Min(NumPick, Len(keys))}

Next ==
  \/ resetGame
  \/ \E i \in 0..(Len(current) - 1) : handleSetSlot(i)
  \/ \E k \in PickKeys : handlePick(k)
  \/ submit
  \/ \E n \in 1..MaxLengthInput : setLengthInput(n)
  \/ \E n \in 0..MaxAttemptsInput : setAttemptsInput(n)
  \/ \E checked \in {~allowDup} : setAllowDupInput(checked)
  \/ addCyanMagenta
  \/ setDefaultPalette
  \/ toggleReveal

Spec == Init /\ [][Next]_vars

(* --------------- the scorer exercised on its own ------------------------ *)
Codes(n) == UNION {[1..len -> {defaultPalette[i] : i \in 1..NumColours}] : len \in 1..n}

InitScore ==
  /\ palette = defaultPalette
  /\ length = DefaultLength
  /\ attempts = DefaultAttempts
  /\ allowDup = TRUE
  /\ secret = [i \in 1..DefaultLength |-> defaultPalette[1]]
  /\ current = Nulls(DefaultLength)
  /\ cursor = 0
  /\ history = <<>>
  /\ gameOver = FALSE
  /\ reveal = FALSE
  /\ lastOp = "init"
  /\ \E s \in Codes(MaxCodeLen), g \in Codes(MaxCodeLen) :
       call = [fn |-> "scoreGuess", secret |-> s, guess |-> g, returned |-> FALSE]

\* scoreGuess has no throw statement; guess[i] past the end is undefined.
callScoreGuess ==
  /\ call.fn = "scoreGuess"
  /\ ~call.returned
  /\ call' = [fn |-> "scoreGuess", secret |-> call.secret, guess |-> call.guess,
              returned |-> TRUE, threw |-> FALSE,
              result |-> scoreGuess(call.secret, call.guess)]
  /\ UNCHANGED <<palette, length, attempts, allowDup, secret, current, cursor,
                 history, gameOver, reveal, lastOp>>

NextScore == callScoreGuess

ScoreSpec == InitScore /\ [][NextScore]_vars

(* ------ two submit calls issued on one rendered snapshot ---------------- *)
\* What the submit closure of one render reads.
Closure ==
  [secret |-> secret, current |-> current, history |-> history,
   gameOver |-> gameOver, length |-> length, attempts |-> attempts]

\* Two calls of the submit of the current render are issued before the next
\* render; only calls that pass canSubmit are followed.
issueSubmits ==
  /\ call = NoCall
  /\ canSubmit
  /\ Len(history) < MaxHistory
  /\ call' = [fn |-> "submit", pending |-> 2, closure |-> Closure]
  /\ UNCHANGED <<palette, length, attempts, allowDup, secret, current, cursor,
                 history, gameOver, reveal, lastOp>>

\* Mutant: setHistory((h) => [...h, attempt]), an updater on the latest value.
submitFromUpdater(c) ==
  LET g == c.current
      feedback == scoreGuess(c.secret, g)
      newHistory == Append(c.history, [guess |-> g, feedback |-> feedback])
  IN  /\ lastOp' = "submit"
      /\ history' = Append(history, [guess |-> g, feedback |-> feedback])
      /\ IF feedback.blacks = c.length \/ Len(newHistory) >= c.attempts
           THEN /\ gameOver' = TRUE
                /\ UNCHANGED <<current, cursor>>
           ELSE /\ current' = Nulls(c.length)
                /\ cursor' = 0
                /\ UNCHANGED gameOver

\* submit run on the values c of its closure: every set call overwrites the
\* state cell, a cell that is not set keeps its latest value.
submitFrom(c) ==
  LET g == c.current
      feedback == scoreGuess(c.secret, g)
      newHistory == Append(c.history, [guess |-> g, feedback |-> feedback])
  IN  /\ lastOp' = "submit"
      /\ history' = newHistory
      /\ IF feedback.blacks = c.length
           THEN /\ gameOver' = TRUE
                /\ UNCHANGED <<current, cursor>>
           ELSE IF Len(newHistory) >= c.attempts
                  THEN /\ gameOver' = TRUE
                       /\ UNCHANGED <<current, cursor>>
                  ELSE /\ current' = Nulls(c.length)
                       /\ cursor' = 0
                       /\ UNCHANGED gameOver

runIssuedSubmit ==
  /\ call.fn = "submit"
  /\ call.pending > 0
  /\ submitFrom(call.closure)
  /\ call' = [call EXCEPT !.pending = call.pending - 1]
  /\ UNCHANGED <<palette, length, attempts, allowDup, secret, reveal>>

\* The component renders again: the handlers close over the new state.
render ==
  /\ call.fn = "submit"
  /\ call.pending = 0
  /\ call' = NoCall
  /\ UNCHANGED <<palette, length, attempts, allowDup, secret, current, cursor,
                 history, gameOver, reveal, lastOp>>

NextDoubleSubmit ==
  \/ call = NoCall /\ Next
  \/ issueSubmits
  \/ runIssuedSubmit
  \/ render

DoubleSubmitSpec == Init /\ [][NextDoubleSubmit]_vars

(* -------------- the generator exercised on its own ---------------------- *)
GenKeys == {SubSeq(defaultPalette, 1, n) : n \in 0..MaxGenKeys}

InitGen ==
  /\ palette = defaultPalette
  /\ length = DefaultLength
  /\ attempts = DefaultAttempts
  /\ allowDup = TRUE
  /\ secret = [i \in 1..DefaultLength |-> defaultPalette[1]]
  /\ current = Nulls(DefaultLength)
  /\ cursor = 0
  /\ history = <<>>
  /\ gameOver = FALSE
  /\ reveal = FALSE
  /\ lastOp = "init"
  /\ \E ks \in GenKeys, len \in (-1)..MaxGenLength, dup \in BOOLEAN :
       call = [fn |-> "randomCode", keys |-> ks, length |-> len,
               allowDuplicates |-> dup, returned |-> FALSE]

\* randomCode has no throw statement and reads no property of undefined.
callRandomCode ==
  /\ call.fn = "randomCode"
  /\ ~call.returned
  /\ \E code \in randomCode(call.keys, call.length, call.allowDuplicates) :
       call' = [fn |-> "randomCode", keys |-> call.keys, length |-> call.length,
                allowDuplicates |-> call.allowDuplicates,
                returned |-> TRUE, threw |-> FALSE, result |-> code]
  /\ UNCHANGED <<palette, length, attempts, allowDup, secret, current, cursor,
                 history, gameOver, reveal, lastOp>>

NextGen == callRandomCode

GenSpec == InitGen /\ [][NextGen]_vars

(* ------- the game, and the scorer on its own, in one specification ------ *)
InitScoreOrGame == Init \/ InitScore

NextScoreOrGame ==
  \/ call = NoCall /\ Next
  \/ NextScore

ScoreOrGameSpec == InitScoreOrGame /\ [][NextScoreOrGame]_vars

(* ------------------------------ claims ---------------------------------- *)
LastAttempt(h) == h[Len(h)]

\* C1: in every reachable state the history holds at most as many attempts
\* as the configured attempt budget.
C1_HistoryWithinBudget == Len(history) <= attempts

\* C2: in every reachable state the secret is as long as the configured
\* code length.
C2_SecretLengthIsLength == Len(secret) = length

\* C3: a step that changes the length, the attempt budget, the duplicates
\* flag or the palette leaves an empty history, a game that is not over and
\* a secret generated from the new configuration.
ConfigChanged ==
  \/ length' # length
  \/ attempts' # attempts
  \/ allowDup' # allowDup
  \/ palette' # palette

C3_ConfigChangeStartsSession ==
  [][ConfigChanged =>
       /\ history' = <<>>
       /\ ~gameOver'
       /\ secret' \in randomCode(palette', length', allowDup')]_vars

\* C4: the status is Won exactly when the history is not empty and its last
\* attempt has as many blacks as the configured length.
C4_WonIffLastExact ==
  (Status = "Won") <=>
    (history # <<>> /\ LastAttempt(history).feedback.blacks = length)

\* C5: the status is Lost exactly when it is not Won and the history holds
\* as many attempts as the attempt budget.
C5_LostIffBudgetUsed ==
  (Status = "Lost") <=> (Status # "Won" /\ Len(history) = attempts)

\* C6: once the game is over, a submit or a colour pick leaves the history,
\* the status and the secret as they are, and only resetGame makes the game
\* InProgress again.
C6_TerminalAbsorbing ==
  [][gameOver =>
       /\ lastOp' \in {"submit", "submitReturned", "handlePick", "handlePickReturned"}
            => /\ UNCHANGED <<history, gameOver, secret>>
               /\ Status' = Status
       /\ ~gameOver' => lastOp' = "resetGame"]_vars

C6_Witness ==
  /\ gameOver
  /\ lastOp = "submitReturned"
  /\ \A i \in 1..Len(current) : current[i] # Null

\* C7: resetGame can run in every state, and it leaves an empty history, the
\* status InProgress and a secret of the configured length drawn from the
\* palette in effect.
C7_NewGameFromAnyState ==
  /\ [](ENABLED resetGame)
  /\ [][lastOp' = "resetGame" =>
          /\ history' = <<>>
          /\ Status' = "InProgress"
          /\ Len(secret') = length
          /\ Range(secret') \subseteq Range(palette)]_vars

C7_Witness ==
  /\ lastOp = "resetGame"
  /\ length # DefaultLength
  /\ palette # defaultPalette
  /\ ~allowDup
  /\ Len(secret) = length

\* C8: an accepted guess with as many blacks as the configured length ends
\* the game as Won, also when it uses up the last attempt.
C8_WinTakesPrecedence ==
  [][(lastOp' = "submit"
        /\ LastAttempt(history').feedback.blacks = length)
       => gameOver' /\ Status' = "Won"]_vars

C8_Witness ==
  /\ lastOp = "submit"
  /\ Status = "Won"
  /\ Len(history) = attempts
  /\ Len(history) = MaxHistory

\* C9: an accepted non-winning guess leaves the game InProgress while fewer
\* attempts than the budget are used and makes it Lost when it is the
\* attempts-th; a submit in a Lost game returns early and keeps the history.
C9_LossOnLastAttempt ==
  [][/\ (lastOp' = "submit"
           /\ LastAttempt(history').feedback.blacks # length)
          => /\ Len(history') < attempts => Status' = "InProgress"
             /\ Len(history') = attempts => Status' = "Lost"
     /\ (Status = "Lost" /\ lastOp' \in {"submit", "submitReturned"})
          => /\ lastOp' = "submitReturned"
             /\ history' = history]_vars

C9_Witness ==
  /\ lastOp = "submitReturned"
  /\ Status = "Lost"
  /\ Len(history) = attempts
  /\ Len(history) = MaxHistory
  /\ \A i \in 1..Len(history) : history[i].feedback.blacks # length

\* C10: for codes of equal length scoreGuess returns blacks = the number of
\* positions that agree and whites = the sum over the colours of either code
\* of min(count in secret, count in guess), minus blacks.
RECURSIVE C10_SumOfMins(_, _, _)
C10_SumOfMins(colours, s, g) ==
  IF colours = {} THEN 0
  ELSE LET c == CHOOSE x \in colours : TRUE
           inS == Cardinality({i \in DOMAIN s : s[i] = c})
           inG == Cardinality({i \in DOMAIN g : g[i] = c})
       IN  (IF inS < inG THEN inS ELSE inG) + C10_SumOfMins(colours \ {c}, s, g)

C10_Feedback(s, g) ==
  LET exact == Cardinality({i \in 1..Len(s) : s[i] = g[i]})
  IN  [blacks |-> exact,
       whites |-> C10_SumOfMins(Range(s) \cup Range(g), s, g) - exact]

C10_EqualLengthCallReturned ==
  call.fn = "scoreGuess" /\ call.returned /\ Len(call.secret) = Len(call.guess)

\* C10 as stated: the formula above, with secret [r,r,b,g] and guess
\* [r,b,b,y] giving (1,1) and [r,r,r,r] with [b,b,b,b] giving (0,0).
C10_AsStated ==
  C10_EqualLengthCallReturned =>
    /\ call.result = C10_Feedback(call.secret, call.guess)
    /\ (call.secret = <<"r", "r", "b", "g">> /\ call.guess = <<"r", "b", "b", "y">>)
         => call.result = [blacks |-> 1, whites |-> 1]
    /\ (call.secret = <<"r", "r", "r", "r">> /\ call.guess = <<"b", "b", "b", "b">>)
         => call.result = [blacks |-> 0, whites |-> 0]

\* C10 amended: the same formula; secret [r,r,b,g] with guess [r,b,b,y]
\* agree at positions 0 and 2 and give (2,0), and [r,r,r,r] with [b,b,b,b]
\* gives (0,0).
C10_ScoreIsExactAndOverlap ==
  C10_EqualLengthCallReturned =>
    /\ call.result = C10_Feedback(call.secret, call.guess)
    /\ (call.secret = <<"r", "r", "b", "g">> /\ call.guess = <<"r", "b", "b", "y">>)
         => call.result = [blacks |-> 2, whites |-> 0]
    /\ (call.secret = <<"r", "r", "r", "r">> /\ call.guess = <<"b", "b", "b", "b">>)
         => call.result = [blacks |-> 0, whites |-> 0]

C10_Witness ==
  /\ call.fn = "scoreGuess"
  /\ call.returned
  /\ call.secret = <<"r", "r", "b", "g">>
  /\ call.guess = <<"r", "b", "b", "y">>
  /\ call.result = [blacks |-> 2, whites |-> 0]

\* C11: for a secret and a guess of equal length L the feedback has
\* 0 <= blacks <= L, 0 <= whites and blacks + whites <= L, and so has every
\* feedback in the history, with L the length of its guess.
C11_Within(fb, L) ==
  /\ 0 <= fb.blacks
  /\ fb.blacks <= L
  /\ 0 <= fb.whites
  /\ fb.blacks + fb.whites <= L

C11_FeedbackBounds ==
  /\ C10_EqualLengthCallReturned => C11_Within(call.result, Len(call.guess))
  /\ \A i \in 1..Len(history) :
       C11_Within(history[i].feedback, Len(history[i].guess))

C11_Witness ==
  /\ C10_EqualLengthCallReturned
  /\ call.result.blacks > 0
  /\ call.result.whites > 0
  /\ call.result.blacks + call.result.whites = Len(call.guess)

\* C12: for a secret and a guess of equal length L, blacks = L exactly when
\* the guess is the secret, peg for peg; scoring a code against itself gives
\* (L, 0), with or without repeated colours.
C12_AllBlacksIffIdentical ==
  C10_EqualLengthCallReturned =>
    /\ (call.result.blacks = Len(call.secret)) <=> (call.guess = call.secret)
    /\ (call.guess = call.secret)
         => call.result = [blacks |-> Len(call.secret), whites |-> 0]

C12_Witness ==
  /\ C10_EqualLengthCallReturned
  /\ call.guess = call.secret
  /\ call.secret = <<"r", "b", "r", "g">>
  /\ call.result = [blacks |-> 4, whites |-> 0]

\* C13: with allowDuplicates false, a palette of at least one key and a
\* length of at least 1, randomCode returns without throwing a code of that
\* length over the palette; it has no repeated colour when the length is at
\* most the palette size, and it is still returned when the length is larger.
C13_NoDuplicatesCall ==
  /\ call.fn = "randomCode"
  /\ call.returned
  /\ ~call.allowDuplicates
  /\ Len(call.keys) >= 1
  /\ call.length >= 1

C13_NoDuplicateGeneration ==
  C13_NoDuplicatesCall =>
    /\ ~call.threw
    /\ Len(call.result) = call.length
    /\ Range(call.result) \subseteq Range(call.keys)
    /\ call.length <= Len(call.keys)
         => \A i, j \in 1..Len(call.result) :
              call.result[i] = call.result[j] => i = j

C13_Witness ==
  /\ C13_NoDuplicatesCall
  /\ call.length > Len(call.keys)
  /\ Len(call.keys) > 1
  /\ Len(call.result) = call.length

\* C14: a submit while some slot of the current row is null takes the early
\* return: history, gameOver, secret, current row and cursor stay as they are.
C14_SlotUnset == \E i \in 1..Len(current) : current[i] = Null

C14_IncompleteSubmitRejected ==
  [][(C14_SlotUnset /\ lastOp' \in {"submit", "submitReturned"})
       => /\ lastOp' = "submitReturned"
          /\ UNCHANGED <<history, gameOver, secret, current, cursor>>]_vars

C14_Witness ==
  /\ lastOp = "submitReturned"
  /\ ~gameOver
  /\ C14_SlotUnset
  /\ \E i \in 1..Len(current) : current[i] # Null
  /\ history # <<>>

C16_MismatchedLengthsFail ==
  (/\ call.fn = "scoreGuess"
   /\ call.returned
   /\ Len(call.secret) # Len(call.guess))
    => call.threw

\* C17: a randomCode call with a length <= 0 or an empty palette ends in an
\* InvalidConfiguration error; it returns no code (so no empty code, no code
\* of another length and no code with a value outside the palette).
C17_DegenerateInputFails ==
  (/\ call.fn = "randomCode"
   /\ call.returned
   /\ (call.length <= 0 \/ call.keys = <<>>))
    => call.threw

\* C18: the reveal toggle can run in every state; a step that toggles reveal
\* leaves secret, history, gameOver, current row and cursor as they are, and
\* the secret shown changes only when resetGame starts a new session.
C18_RevealChangesNothing ==
  /\ [](ENABLED toggleReveal)
  /\ [][/\ (reveal' # reveal /\ lastOp' = "other")
             => UNCHANGED <<secret, history, gameOver, current, cursor>>
        /\ secret' # secret => lastOp' = "resetGame"]_vars

C18_Witness ==
  /\ reveal
  /\ lastOp = "other"
  /\ Status = "Won"

\* C19 as stated: after two submit calls on one snapshot the history holds
\* the snapshot's attempts and then both new attempts in order, or only the
\* first when the first ended the game.
C19_BothRan == call.fn = "submit" /\ call.pending = 0

C19_Attempt(c) ==
  [guess |-> c.current, feedback |-> scoreGuess(c.secret, c.current)]

C19_FirstEndsGame(c) ==
  \/ C19_Attempt(c).feedback.blacks = c.length
  \/ Len(c.history) + 1 >= c.attempts

C19_AsStated ==
  C19_BothRan =>
    LET c == call.closure
    IN  history = IF C19_FirstEndsGame(c)
                    THEN c.history \o <<C19_Attempt(c)>>
                    ELSE c.history \o <<C19_Attempt(c), C19_Attempt(c)>>

\* C19 amended: after two submit calls on one snapshot the state is the one
\* the two calls leave when run one after the other, each on the refreshed
\* state: the history holds the snapshot's attempts and then one new attempt
\* (the second call would find the game over or the row cleared and return),
\* the game is over exactly when that attempt ends it, and the row is cleared
\* otherwise.
C19_DoubleSubmitIsSerial ==
  C19_BothRan =>
    LET c == call.closure
    IN  /\ history = c.history \o <<C19_Attempt(c)>>
        /\ gameOver = C19_FirstEndsGame(c)
        /\ current = IF C19_FirstEndsGame(c) THEN c.current ELSE Nulls(c.length)
        /\ ~canSubmit

C19_Witness ==
  /\ C19_BothRan
  /\ ~gameOver
  /\ call.closure.history # <<>>
  /\ Len(history) = Len(call.closure.history) + 1

\* C20: when the game is over and shown as won, the last guess of the
\* history is the secret, peg for peg.
C20_WonMeansGuessIsSecret ==
  Status = "Won" => LastAttempt(history).guess = secret

====
